---- MODULE Spec2Model ----
(***************************************************************************)
(* AutoSense: the input validator (agent/errors.py), the ReAct            *)
(* orchestrator (agent/core.py, ui/app.py) and the retrieval service       *)
(* (api_local.py, api.py, index/build_index.py).                           *)
(*                                                                         *)
(* A text is a sequence of symbols.  A symbol is one character, or one     *)
(* fixed literal of a format string of the source, kept whole.  Query      *)
(* texts, VINs and DTC codes are made of characters only.                  *)
(***************************************************************************)
EXTENDS Integers, Sequences, FiniteSets, TLC

VARIABLES
    pc,              \* position of the run
    entry,           \* which entry point started the run
    query,           \* the caller's query text
    vin,             \* the caller's VIN, or None
    openai_api_key,  \* TRUE when a generative-model key is configured
    validation,      \* the dict returned by ensure_valid_input, or NoneDict
    extracted_vin,   \* react's local extracted_vin
    extracted_dtc,   \* react's local extracted_dtc
    thoughts,        \* react's local thoughts
    actions,         \* react's local actions
    observations,    \* react's local observations
    search_results,  \* react's local search_results
    dtc_info,        \* react's local dtc_info
    recalls,         \* react's local recalls, Unbound until assigned
    calls,           \* the outbound calls made so far, with their arguments
    failed,          \* the stages whose outbound call failed
    result,          \* the value returned to the caller, or NoneDict
    model,           \* api_local's global model: None until the embedding model is loaded
    dtc_arg,         \* the code given to validate_dtc_code, or None
    db,              \* the store: its dtc rows and its recall rows
    documents,       \* api_local's global documents
    bm25_index,      \* api_local's global bm25_index: NoneDict, or the indexed corpus
    combined_results,\* the search's local list of scored documents, once sorted
    request,         \* the search request: its query, k and vin, or NoneDict
    response,        \* what an endpoint returned: its status and body, or NoneDict
    qdrant,          \* api's global qdrant: NoneDict until a client is constructed
    up,              \* the backing services that can be reached
    callers,         \* the threads resolving get_embedding_model: position and handle got
    constructed,     \* how many SentenceTransformer instances were constructed
    served           \* how many requests the process has answered

vars == <<pc, entry, query, vin, openai_api_key, validation, extracted_vin,
          extracted_dtc, thoughts, actions, observations, search_results,
          dtc_info, recalls, calls, failed, result,
          model, dtc_arg, db, documents, bm25_index, combined_results,
          request, response, qdrant, up, callers, constructed, served>>

\* the state of the retrieval service and the identifier under validation
service == <<model, dtc_arg, db, documents, bm25_index, combined_results,
          request, response, qdrant, up, callers, constructed, served>>

----------------------------------------------------------------------------
(* Bounds of the model. *)

\* a query is the concatenation of at most MaxFrags fragments
MaxFrags == 2
\* an orchestrated query has at most MaxRunWords words
MaxRunWords == 2
\* longest list of search results given to the template
MaxResults == 4
\* longest list of recalls given to the template
MaxRecalls == 3
\* most whitespace characters put on one side of an identifier
MaxPad == 1
\* most rows of the dtc table
MaxDtcRows == 2
\* most rows of the recall table
MaxRecallRows == 3
\* largest k of a search request
MaxK == 2

----------------------------------------------------------------------------
(* Python values. *)

\* Python's None: a one-symbol text that is no character text
None == <<"<None>">>

\* None where a dict is expected (TLC compares a record only with records)
NoneDict == [None |-> TRUE]

\* a local variable (a list of dicts) that has not been assigned yet
Unbound == <<[unbound |-> TRUE]>>

\* Python truthiness of an Optional[str]
Truthy(x) == x # None /\ x # <<>>

\* Python truthiness of a list
TruthyList(l) == Len(l) > 0

\* Python truthiness of an Optional[dict]
TruthyDict(d) == d # NoneDict /\ DOMAIN d # {}

\* a Python int: its digits behind a marker, so that it equals no str
PyInt(digits) == <<"<int>">> \o digits

\* str(x) inside an f-string
Str(x) ==
    IF x = None THEN <<"N", "o", "n", "e">>
    ELSE IF x # <<>> /\ x[1] = "<int>" THEN Tail(x)
    ELSE x

\* dict.get(key, default)
Get(d, key, default) == IF key \in DOMAIN d THEN d[key] ELSE default

----------------------------------------------------------------------------
(* Characters and str methods. *)

LowerLetters == <<"a", "b", "c", "d", "e", "f", "g", "h", "i", "j", "k", "l", "m",
                  "n", "o", "p", "q", "r", "s", "t", "u", "v", "w", "x", "y", "z">>

UpperLetters == <<"A", "B", "C", "D", "E", "F", "G", "H", "I", "J", "K", "L", "M",
                  "N", "O", "P", "Q", "R", "S", "T", "U", "V", "W", "X", "Y", "Z">>

Digits == {"0", "1", "2", "3", "4", "5", "6", "7", "8", "9"}

Range(s) == {s[i] : i \in DOMAIN s}

Whitespace == {" ", "\n"}

LowerSet == Range(LowerLetters)

UpperSet == Range(UpperLetters)

\* \w of the re module
WordChars == LowerSet \cup UpperSet \cup Digits \cup {"_"}

IsWordChar(c) == c \in WordChars

ToUpper == [c \in LowerSet |-> UpperLetters[CHOOSE i \in DOMAIN LowerLetters : LowerLetters[i] = c]]

ToLower == [c \in UpperSet |-> LowerLetters[CHOOSE i \in DOMAIN UpperLetters : UpperLetters[i] = c]]

UpperChar(c) == IF c \in LowerSet THEN ToUpper[c] ELSE c

LowerChar(c) == IF c \in UpperSet THEN ToLower[c] ELSE c

\* str.upper()
Upper(text) == [i \in DOMAIN text |-> UpperChar(text[i])]

\* str.lower()
Lower(text) == [i \in DOMAIN text |-> LowerChar(text[i])]

\* str.strip()
Strip(text) ==
    LET inked == {i \in DOMAIN text : text[i] \notin Whitespace}
    IN  IF inked = {} THEN <<>>
        ELSE SubSeq(text, CHOOSE i \in inked : \A j \in inked : i <= j,
                          CHOOSE i \in inked : \A j \in inked : i >= j)

\* str.split(): the maximal runs of non-whitespace characters
RECURSIVE Split(_)
Split(text) ==
    LET inked == {i \in DOMAIN text : text[i] \notin Whitespace}
    IN  IF inked = {} THEN <<>>
        ELSE LET start == CHOOSE i \in inked : \A j \in inked : i <= j
                 stops == {i \in DOMAIN text : i > start /\ text[i] \in Whitespace}
                 stop == IF stops = {} THEN Len(text) + 1
                         ELSE CHOOSE i \in stops : \A j \in stops : i <= j
             IN  <<SubSeq(text, start, stop - 1)>> \o Split(SubSeq(text, stop, Len(text)))

\* sep.join(parts)
RECURSIVE Join(_, _)
Join(sep, parts) ==
    IF parts = <<>> THEN <<>>
    ELSE IF Len(parts) = 1 THEN parts[1]
    ELSE parts[1] \o sep \o Join(sep, Tail(parts))

\* text occurs in whole at position i of s
OccursAt(text, s, i) ==
    /\ i + Len(text) - 1 <= Len(s)
    /\ \A j \in DOMAIN text : s[i + j - 1] = text[j]

\* `text in s`
Contains(text, s) == \E i \in 1..(Len(s) + 1) : OccursAt(text, s, i)

EndsWith(s, text) ==
    Len(text) <= Len(s) /\ OccursAt(text, s, Len(s) - Len(text) + 1)

----------------------------------------------------------------------------
(* agent/errors.py *)

\* the length limit of validate_query
MaxQueryLen == 500

\* the number of characters of a VIN
VinLen == 17

\* the number of digits of a DTC code
DtcDigits == 4

\* [A-HJ-NPR-Z0-9]
VinChars == (UpperSet \ {"I", "O", "Q"}) \cup Digits

\* [A-HJ-NPR-Z0-9]{17}
VinClasses == [j \in 1..VinLen |-> VinChars]

\* [PBCU][0-9]{4}
DtcClasses == [j \in 1..(DtcDigits + 1) |-> IF j = 1 THEN {"P", "B", "C", "U"} ELSE Digits]

\* the characters of text from position i on are, one by one, in the classes
MatchAt(classes, text, i) ==
    /\ i + Len(classes) - 1 <= Len(text)
    /\ \A j \in DOMAIN classes : text[i + j - 1] \in classes[j]

\* \b just before position p of text
WordBoundary(text, p) ==
    (p - 1 \in DOMAIN text /\ IsWordChar(text[p - 1])) # (p \in DOMAIN text /\ IsWordChar(text[p]))

\* re.search(r'\b<classes>\b', text): the leftmost match, or None
ReSearchWord(classes, text) ==
    LET hits == {i \in DOMAIN text : /\ WordBoundary(text, i)
                                     /\ MatchAt(classes, text, i)
                                     /\ WordBoundary(text, i + Len(classes))}
    IN  IF hits = {} THEN None
        ELSE LET first == CHOOSE i \in hits : \A j \in hits : i <= j
             IN  SubSeq(text, first, first + Len(classes) - 1)

\* re.match(r'^<classes>$', text): $ also matches before one final newline
ReMatchWhole(classes, text) ==
    /\ MatchAt(classes, text, 1)
    /\ \/ Len(text) = Len(classes)
       \/ Len(text) = Len(classes) + 1 /\ text[Len(text)] = "\n"

\* the search without re.IGNORECASE
ReSearchCaseSensitive(pattern, text) ==
    \E i \in 1..(Len(text) + 1) :
        /\ i + Len(pattern) - 1 <= Len(text)
        /\ \A j \in DOMAIN pattern : text[i + j - 1] = pattern[j]

\* re.search(pattern, text, re.IGNORECASE) for a pattern of plain characters
ReSearchIgnoreCase(pattern, text) ==
    \E i \in 1..(Len(text) + 1) :
        /\ i + Len(pattern) - 1 <= Len(text)
        /\ \A j \in DOMAIN pattern : LowerChar(text[i + j - 1]) = LowerChar(pattern[j])

suspicious_patterns ==
    << <<"<", "s", "c", "r", "i", "p", "t">>,
       <<"j", "a", "v", "a", "s", "c", "r", "i", "p", "t", ":">>,
       <<"d", "a", "t", "a", ":", "t", "e", "x", "t", "/", "h", "t", "m", "l">>,
       <<"v", "b", "s", "c", "r", "i", "p", "t", ":">> >>

\* the length test with >= for >
TooLongFromLimit(q) == Len(q) >= MaxQueryLen

\* len(query) > 500
TooLong(q) == Len(q) > MaxQueryLen

\* no exception was raised
NoError == [type |-> "NoError", message |-> <<>>]

\* validate_query: the exception it raises, or NoError
validate_query(q) ==
    IF ~Truthy(q) \/ Strip(q) = <<>>
    THEN [type |-> "EmptyQueryError", message |-> <<"Query cannot be empty">>]
    ELSE IF TooLong(q)
    THEN [type |-> "LongInputError",
          message |-> <<"Query exceeds maximum length of 500 characters">>]
    ELSE LET hits == {n \in DOMAIN suspicious_patterns :
                          ReSearchIgnoreCase(suspicious_patterns[n], q)}
         IN  IF hits = {} THEN NoError
             ELSE [type |-> "MalformedInputError",
                   message |-> <<"Query contains suspicious content: ">>
                               \o suspicious_patterns[CHOOSE n \in hits : \A m \in hits : n <= m]]

\* validate_vin without the upper-casing
validate_vin_as_typed(v) ==
    IF ~Truthy(v) THEN [raised |-> NoError, value |-> None]
    ELSE LET norm == Strip(v)
         IN  IF ReMatchWhole(VinClasses, norm)
             THEN [raised |-> NoError, value |-> norm]
             ELSE [raised |-> [type |-> "InvalidVINError",
                               message |-> <<"Invalid VIN format: ">> \o norm \o
                                   <<". VIN must be 17 characters and contain only valid characters.">>],
                   value |-> None]

\* validate_vin: the exception it raises (or NoError) and the value it returns
validate_vin(v) ==
    IF ~Truthy(v) THEN [raised |-> NoError, value |-> None]
    ELSE LET norm == Upper(Strip(v))
         IN  IF ReMatchWhole(VinClasses, norm)
             THEN [raised |-> NoError, value |-> norm]
             ELSE [raised |-> [type |-> "InvalidVINError",
                               message |-> <<"Invalid VIN format: ">> \o norm \o
                                   <<". VIN must be 17 characters and contain only valid characters.">>],
                   value |-> None]

\* validate_dtc_code without the strip
validate_dtc_code_unstripped(code) ==
    IF ~Truthy(code) THEN [raised |-> NoError, value |-> None]
    ELSE LET norm == Upper(code)
         IN  IF ReMatchWhole(DtcClasses, norm)
             THEN [raised |-> NoError, value |-> norm]
             ELSE [raised |-> [type |-> "InvalidDTCError",
                               message |-> <<"Invalid DTC code format: ">> \o norm \o
                                   <<". DTC must be P/B/C/U followed by 4 digits.">>],
                   value |-> None]

\* validate_dtc_code: the exception it raises (or NoError) and the value it returns
validate_dtc_code(code) ==
    IF ~Truthy(code) THEN [raised |-> NoError, value |-> None]
    ELSE LET norm == Upper(Strip(code))
         IN  IF ReMatchWhole(DtcClasses, norm)
             THEN [raised |-> NoError, value |-> norm]
             ELSE [raised |-> [type |-> "InvalidDTCError",
                               message |-> <<"Invalid DTC code format: ">> \o norm \o
                                   <<". DTC must be P/B/C/U followed by 4 digits.">>],
                   value |-> None]

dangerous_chars == {"<", ">", "\"", "'", "&"}

\* sanitize_input
sanitize_input(text) ==
    Join(<<" ">>, Split(SelectSeq(text, LAMBDA c : c \notin dangerous_chars)))

\* extract_and_validate_components: an InvalidVINError / InvalidDTCError of the
\* re-validation is caught there and leaves the component None
extract_and_validate_components(q) ==
    LET vin_match == ReSearchWord(VinClasses, Upper(q))
        dtc_match == ReSearchWord(DtcClasses, Upper(q))
    IN  [vin |-> IF vin_match # None /\ validate_vin(vin_match).raised = NoError
                 THEN validate_vin(vin_match).value ELSE None,
         dtc_code |-> IF dtc_match # None /\ validate_dtc_code(dtc_match).raised = NoError
                      THEN validate_dtc_code(dtc_match).value ELSE None,
         sanitized_query |-> sanitize_input(q)]

\* handle_edge_cases: the dict it returns
handle_edge_cases(q, v) ==
    LET e == validate_query(q)
        components == extract_and_validate_components(q)
    IN  IF e # NoError
        THEN [is_valid |-> FALSE, error |-> e.message, error_type |-> e.type,
              sanitized_query |-> sanitize_input(q), vin |-> None, dtc_code |-> None]
        ELSE [is_valid |-> TRUE, errors |-> <<>>,
              vin |-> IF Truthy(v) /\ validate_vin(v).raised = NoError
                      THEN validate_vin(v).value ELSE components.vin,
              dtc_code |-> components.dtc_code,
              sanitized_query |-> components.sanitized_query]

\* get_error_suggestion, by the name of the error's class
get_error_suggestion(error_type) ==
    CASE error_type = "EmptyQueryError" ->
             <<"Please provide a description of the problem or a DTC code.">>
      [] error_type = "LongInputError" ->
             <<"Please keep your query under 500 characters.">>
      [] error_type = "InvalidVINError" ->
             <<"VIN should be 17 characters long and contain only letters (excluding I, O, Q) and numbers.">>
      [] error_type = "InvalidDTCError" ->
             <<"DTC code should start with P, B, C, or U followed by 4 digits (e.g., P0420).">>
      [] error_type = "MalformedInputError" ->
             <<"Please provide a valid automotive diagnostic query.">>
      [] OTHER -> <<"Please check your input and try again.">>

\* ensure_valid_input
ensure_valid_input(q, v) == handle_edge_cases(q, v)

----------------------------------------------------------------------------
(* The inputs. *)

DtcP0420 == <<"P", "0", "4", "2", "0">>

Vin1 == <<"1", "H", "G", "C", "M", "8", "2", "6", "3", "3", "A", "0", "0", "4", "3", "5", "2">>

Vin2 == <<"5", "Y", "J", "S", "A", "1", "E", "2", "6", "H", "F", "0", "0", "0", "3", "3", "7">>

\* the pieces queries are made of
Fragments ==
    { DtcP0420,
      <<"p", "0", "4", "2", "0">>,
      Vin1,
      <<" ">>,
      <<"\n">>,
      <<"x">>,
      <<"'">>,
      <<"<", "s", "c", "r", "i", "p", "t">>,
      <<"<", "S", "c", "R", "i", "P", "t">>,
      <<"J", "a", "v", "a", "S", "c", "r", "i", "p", "t", ":">>,
      <<"j", "a", "v", "a">>,
      <<"j", "a", "v", "a", "'">>,
      <<"s", "c", "r", "i", "p", "t", ":">>,
      <<"d", "a", "t", "a", ":", "t", "e", "x", "t", "/", "h", "t", "m", "l">>,
      <<"V", "B", "s", "c", "r", "i", "p", "t", ":">> }

\* the concatenations of exactly n members of pieces
RECURSIVE Concats(_, _)
Concats(pieces, n) ==
    IF n = 0 THEN {<<>>}
    ELSE {f \o rest : f \in pieces, rest \in Concats(pieces, n - 1)}

ShortQueries == UNION {Concats(Fragments, n) : n \in 0..MaxFrags}

\* text followed by as many c as bring it to length n
PadTo(text, n, c) == text \o [i \in 1..(n - Len(text)) |-> c]

\* queries at and beyond the length limit
LongQueries ==
    {PadTo(f, n, c) : f \in Fragments \cup {<<>>},
                      n \in {MaxQueryLen, MaxQueryLen + 1, 600},
                      c \in {"A", " "}}

Queries == ShortQueries \cup LongQueries

\* the VIN arguments a caller passes
CallerVins ==
    { None,
      <<>>,
      Vin2,
      <<" ">> \o Vin2 \o <<"\n">>,
      <<"1", "h", "g", "c", "m", "8", "2", "6", "3", "3", "a", "0", "0", "4", "3", "5", "2">>,
      <<"1", "H", "G", "C", "M", "8", "2", "6", "3", "3", "A", "0", "0", "4", "3", "5">>,
      <<"1", "H", "G", "C", "M", "8", "2", "6", "3", "3", "A", "0", "0", "4", "3", "5", "O">> }

----------------------------------------------------------------------------
(* The validator called on its own. *)

\* the services the endpoints depend on
Services == {"embedding_model", "qdrant", "database"}

\* no client, no caller and no request yet, every service reachable
Idle ==
    /\ qdrant = NoneDict
    /\ up = Services
    /\ callers = <<>>
    /\ constructed = 0
    /\ served = 0

\* the retrieval service before start-up, and no identifier under validation
NoService ==
    /\ model = None
    /\ dtc_arg = None
    /\ db = [dtc |-> <<>>, recall |-> <<>>]
    /\ documents = <<>>
    /\ bm25_index = NoneDict
    /\ combined_results = <<>>
    /\ request = NoneDict
    /\ response = NoneDict
    /\ Idle

\* the run's locals before react has assigned any of them
NoRun ==
    /\ validation = NoneDict
    /\ extracted_vin = None
    /\ extracted_dtc = None
    /\ thoughts = <<>>
    /\ actions = <<>>
    /\ observations = <<>>
    /\ search_results = Unbound
    /\ dtc_info = Unbound
    /\ recalls = Unbound
    /\ calls = <<>>
    /\ failed = {}
    /\ result = NoneDict

InitValidate ==
    /\ pc = "start"
    /\ entry = "validator"
    /\ query \in Queries
    /\ vin \in CallerVins
    /\ openai_api_key = FALSE
    /\ NoRun
    /\ NoService

\* validate_query(query): result is the exception raised, or NoError
ValidateQuery ==
    /\ pc = "start"
    /\ entry = "validator"
    /\ pc' = "validated"
    /\ result' = validate_query(query)
    /\ UNCHANGED service
    /\ UNCHANGED <<entry, query, vin, openai_api_key, validation, extracted_vin,
                   extracted_dtc, thoughts, actions, observations, search_results,
                   dtc_info, recalls, calls, failed>>

\* ensure_valid_input(query, vin)
EnsureValidInput ==
    /\ pc = "start"
    /\ entry = "validator"
    /\ pc' = "processed"
    /\ validation' = ensure_valid_input(query, vin)
    /\ UNCHANGED service
    /\ UNCHANGED <<entry, query, vin, openai_api_key, extracted_vin,
                   extracted_dtc, thoughts, actions, observations, search_results,
                   dtc_info, recalls, calls, failed, result>>

NextValidate == ValidateQuery \/ EnsureValidInput

SpecValidate == InitValidate /\ [][NextValidate]_vars

----------------------------------------------------------------------------
(* validate_vin and validate_dtc_code called on their own. *)

\* text with its p-th character replaced by c
Replace(text, p, c) == [i \in DOMAIN text |-> IF i = p THEN c ELSE text[i]]

\* the runs of at most MaxPad whitespace characters
Pads == UNION {Concats({<<" ">>, <<"\n">>}, n) : n \in 0..MaxPad}

\* the characters written over one character of an identifier
EditChars == {"I", "O", "Q", "i", "o", "q", "P", "u", "a", "Z", "0", "7", "-", " "}

Vin1Lower == [i \in DOMAIN Vin1 |-> LowerChar(Vin1[i])]

\* the VIN arguments of validate_vin: the callers' VINs, VINs with one
\* character overwritten, VINs cut short, and VINs inside whitespace
VinArgs ==
    CallerVins
    \cup {Replace(v, p, c) : v \in {Vin1, Vin2}, p \in {1, 9, VinLen}, c \in EditChars}
    \cup {SubSeq(Vin2, 1, n) : n \in 0..VinLen}
    \cup {l \o v \o r : l \in Pads, r \in Pads, v \in {Vin2, Vin1Lower, Vin2 \o <<"7">>}}

\* the code arguments of validate_dtc_code, made the same way
DtcArgs ==
    {None}
    \cup {Replace(c, p, e) : c \in {DtcP0420, <<"u", "1", "2", "3", "4">>},
                             p \in 1..(DtcDigits + 1), e \in EditChars}
    \cup {SubSeq(DtcP0420, 1, n) : n \in 0..(DtcDigits + 1)}
    \cup {l \o c \o r : l \in Pads, r \in Pads,
                         c \in {DtcP0420, <<"b", "0", "0", "0", "1">>, DtcP0420 \o <<"0">>}}

InitIdent ==
    /\ pc = "start"
    /\ entry = "identifiers"
    /\ query = <<>>
    /\ \/ vin \in VinArgs /\ dtc_arg = None
       \/ vin = None /\ dtc_arg \in DtcArgs
    /\ openai_api_key = FALSE
    /\ NoRun
    /\ model = None
    /\ db = [dtc |-> <<>>, recall |-> <<>>]
    /\ documents = <<>>
    /\ bm25_index = NoneDict
    /\ combined_results = <<>>
    /\ request = NoneDict
    /\ response = NoneDict
    /\ Idle

\* validate_vin(vin): result holds what it raised and what it returned
ValidateVin ==
    /\ pc = "start"
    /\ entry = "identifiers"
    /\ pc' = "vin_validated"
    /\ result' = validate_vin(vin)
    /\ UNCHANGED service
    /\ UNCHANGED <<entry, query, vin, openai_api_key, validation, extracted_vin,
                   extracted_dtc, thoughts, actions, observations, search_results,
                   dtc_info, recalls, calls, failed>>

\* validate_dtc_code(dtc_arg)
ValidateDtcCode ==
    /\ pc = "start"
    /\ entry = "identifiers"
    /\ pc' = "dtc_validated"
    /\ result' = validate_dtc_code(dtc_arg)
    /\ UNCHANGED service
    /\ UNCHANGED <<entry, query, vin, openai_api_key, validation, extracted_vin,
                   extracted_dtc, thoughts, actions, observations, search_results,
                   dtc_info, recalls, calls, failed>>

NextIdent == ValidateVin \/ ValidateDtcCode

SpecIdent == InitIdent /\ [][NextIdent]_vars

----------------------------------------------------------------------------
(* agent/core.py: the pure parts. *)

\* k of the Retrieve stage
SearchK == 5

\* search_results[:3] of the template
FindingsShown == 3

\* recalls[:2] of the template
RecallsShown == 2

\* _extract_dtc_code
extract_dtc_code(q) == ReSearchWord(DtcClasses, Upper(q))

\* _extract_vin
extract_vin(q) == ReSearchWord(VinClasses, Upper(q))

\* s[:n]
Take(s, n) == SubSeq(s, 1, IF Len(s) < n THEN Len(s) ELSE n)

ClosingLine ==
    <<"\n**Recommendation**: Please consult with a qualified automotive technician for proper diagnosis and repair.">>

\* the line the template appends for one search result: none for an unknown type
FindingLines(r) ==
    IF Get(r, "type", None) = <<"dtc">>
    THEN << <<"- DTC ">> \o Str(Get(r, "code", None)) \o <<": ">>
            \o Str(Get(r, "description", <<"No description">>)) >>
    ELSE IF Get(r, "type", None) = <<"recall">>
    THEN << <<"- Recall ">> \o Str(Get(r, "rid", None)) \o <<": ">>
            \o Str(Get(r, "summary", <<"No summary">>)) >>
    ELSE <<>>

RecallLine(r) == <<"- ">> \o Str(Get(r, "summary", <<"No summary">>))

RECURSIVE AllFindingLines(_)
AllFindingLines(rs) ==
    IF rs = <<>> THEN <<>> ELSE FindingLines(Head(rs)) \o AllFindingLines(Tail(rs))

\* the template looping over all of search_results and recalls
response_parts_unsliced(q, results, dtc_code, v, recs) ==
    << <<"Diagnostic analysis for: ">> \o q >>
    \o (IF Truthy(dtc_code) THEN << <<"\n**DTC Code Detected**: ">> \o dtc_code >> ELSE <<>>)
    \o (IF TruthyList(results)
        THEN << <<"\n**Relevant Information Found**:">> >> \o AllFindingLines(results)
        ELSE <<>>)
    \o (IF TruthyList(recs)
        THEN << <<"\n**Recalls for VIN ">> \o Str(v) \o <<"**:">> >>
             \o [i \in 1..Len(recs) |-> RecallLine(recs[i])]
        ELSE <<>>)
    \o <<ClosingLine>>

\* response_parts of _generate_fallback_response
response_parts(q, results, dtc_code, v, recs) ==
    << <<"Diagnostic analysis for: ">> \o q >>
    \o (IF Truthy(dtc_code) THEN << <<"\n**DTC Code Detected**: ">> \o dtc_code >> ELSE <<>>)
    \o (IF TruthyList(results)
        THEN << <<"\n**Relevant Information Found**:">> >>
             \o AllFindingLines(Take(results, FindingsShown))
        ELSE <<>>)
    \o (IF TruthyList(recs)
        THEN << <<"\n**Recalls for VIN ">> \o Str(v) \o <<"**:">> >>
             \o [i \in 1..Len(Take(recs, RecallsShown)) |-> RecallLine(recs[i])]
        ELSE <<>>)
    \o <<ClosingLine>>

\* _generate_fallback_response
generate_fallback_response(q, results, dtc_code, v, recs) ==
    Join(<<"\n">>, response_parts(q, results, dtc_code, v, recs))

\* the text of a successful completion
LlmText == <<"<completion>">>

\* the synthesis without its try/except
generate_llm_response_unguarded(q, results, dtc_code, v, recs, llm) ==
    IF llm = "ok"
    THEN [raised |-> NoError, value |-> LlmText]
    ELSE [raised |-> [type |-> "OpenAIError", message |-> <<"model call failed">>],
          value |-> None]

\* _generate_llm_response, given how the model call ends: what it raises and returns
generate_llm_response(q, results, dtc_code, v, recs, llm) ==
    IF llm = "ok"
    THEN [raised |-> NoError, value |-> LlmText]
    ELSE [raised |-> NoError,
          value |-> generate_fallback_response(q, results, dtc_code, v, recs)]

----------------------------------------------------------------------------
(* The documents and answers of the outbound calls. *)

DocDtc == [type |-> <<"dtc">>, code |-> DtcP0420, description |-> <<"Catalyst efficiency">>]

DocRecall == [type |-> <<"recall">>, rid |-> <<"R1">>, summary |-> <<"Airbag inflator">>]

DocOther == [type |-> <<"sensor">>, code |-> DtcP0420]

RecallRow == [nhtsa_id |-> <<"R1">>, summary |-> <<"Airbag inflator">>]

RecallRowBare == [nhtsa_id |-> <<"R2">>]

\* the sequences of at most n members of docs
SeqsUpTo(docs, n) == UNION {[1..m -> docs] : m \in 0..n}

\* how an outbound call ends
Outcomes == {"ok", "exception", "timeout", "status"}

\* the result lists /search answers with
SearchAnswers == {<<>>, <<DocDtc, DocRecall>>}

\* the recall lists /recalls/{vin} answers with
RecallAnswers == {<<>>, <<RecallRow>>}

\* the record /dtc/{code} answers with
DtcAnswer(code) == [code |-> code, category |-> <<"Powertrain">>,
                    description |-> <<"Catalyst efficiency">>]

----------------------------------------------------------------------------
(* The orchestrator: AutoSenseAgent.react and its caller in ui/app.py. *)

ScenarioQuery == <<"M", "y", " ", "c", "a", "r", " ", "i", "s", " ", "s", "h", "o", "w", "i", "n", "g", " ", "P", "0", "4", "2", "0", " ", "e", "r", "r", "o", "r", " ", "c", "o", "d", "e">>

RunWords ==
    { DtcP0420,
      <<"p", "0", "4", "2", "0">>,
      Vin1,
      <<"n", "o", "i", "s", "e">>,
      <<"i", "t", "'", "s">> }

\* the queries of one to MaxRunWords words, single spaces between them
RunWordQueries ==
    {Join(<<" ">>, ws) : ws \in UNION {[1..m -> RunWords] : m \in 1..MaxRunWords}}

RunQueries ==
    RunWordQueries \cup
    { ScenarioQuery,
      <<>>,
      <<" ", " ">>,
      <<"n", "o", " ", " ", "s", "t", "a", "r", "t">>,
      <<"<", "s", "c", "r", "i", "p", "t">>,
      PadTo(<<>>, 600, "A") }

RunVins ==
    { None,
      <<>>,
      Vin2,
      <<"1", "h", "g", "c", "m", "8", "2", "6", "3", "3", "a", "0", "0", "4", "3", "5", "2">>,
      <<"5", "y", "j", "s", "a", "1", "e", "2", "6", "h", "f", "0", "0", "0", "3", "3", "7">>,
      <<"A", "B", "C">> }

Init ==
    /\ pc = "start"
    /\ entry \in {"react", "run_agent_diagnosis"}
    /\ query \in RunQueries
    /\ vin \in RunVins
    /\ openai_api_key \in BOOLEAN
    /\ NoRun
    /\ NoService

\* the payload search() posts
SearchPayload(q, v, k) ==
    IF Truthy(v) THEN [query |-> q, k |-> k, vin |-> v] ELSE [query |-> q, k |-> k]

\* react up to its first await: the extraction, the first thought, the search call
ReactBegin ==
    /\ extracted_vin' = (IF Truthy(vin) THEN vin ELSE extract_vin(query))
    /\ extracted_dtc' = extract_dtc_code(query)
    /\ thoughts' = <<"Analyzing the automotive diagnostic query to understand the problem and determine required information.">>
    /\ actions' = <<"search">>
    /\ calls' = <<[op |-> "POST /search",
                   payload |-> SearchPayload(query, extracted_vin', SearchK)]>>
    /\ pc' = "search"
    /\ UNCHANGED <<observations, search_results, dtc_info, recalls, failed, result>>

\* AutoSenseAgent.react called directly
React ==
    /\ pc = "start"
    /\ entry = "react"
    /\ ReactBegin
    /\ UNCHANGED service
    /\ UNCHANGED <<entry, query, vin, openai_api_key, validation>>

\* AutoSenseUI.run_agent_diagnosis: validate, then run the agent
RunAgentDiagnosis ==
    /\ pc = "start"
    /\ entry = "run_agent_diagnosis"
    /\ validation' = ensure_valid_input(query, vin)
    /\ IF ~Get(validation', "is_valid", TRUE)
       THEN /\ result' = [error |-> Get(validation', "error", <<"Validation failed">>),
                          suggestion |-> Get(validation', "suggestion",
                                             <<"Please check your input">>)]
            /\ pc' = "done"
            /\ UNCHANGED <<extracted_vin, extracted_dtc, thoughts, actions, observations,
                           search_results, dtc_info, recalls, calls, failed>>
       ELSE ReactBegin
    /\ UNCHANGED service
    /\ UNCHANGED <<entry, query, vin, openai_api_key>>

\* the two lookups taken in the other order, the first one taken ending the chain
StageAfterSearchRecallsFirst ==
    IF Truthy(extracted_vin) THEN "lookup_recalls"
    ELSE IF Truthy(extracted_dtc) THEN "lookup_dtc"
    ELSE "synthesize"

\* the stage react enters once the search has returned
StageAfterSearch ==
    IF Truthy(extracted_dtc) THEN "lookup_dtc"
    ELSE IF Truthy(extracted_vin) THEN "lookup_recalls"
    ELSE "synthesize"

\* the stage react enters once the DTC lookup has returned
StageAfterDtc == IF Truthy(extracted_vin) THEN "lookup_recalls" ELSE "synthesize"

\* entering a lookup stage records its action and makes its call
EnterStage(stage) ==
    /\ pc' = stage
    /\ actions' = (IF stage \in {"lookup_dtc", "lookup_recalls"}
                   THEN Append(actions, stage) ELSE actions)
    /\ calls' = (IF stage = "lookup_dtc"
                 THEN Append(calls, [op |-> "GET /dtc", arg |-> extracted_dtc])
                 ELSE IF stage = "lookup_recalls"
                 THEN Append(calls, [op |-> "GET /recalls", arg |-> extracted_vin])
                 ELSE calls)

\* search(): what it returns when the call ends with outcome and, if ok, answer
search(outcome, answer) == IF outcome = "ok" THEN answer ELSE <<>>

\* lookup_dtc without its status test and its except clause
lookup_dtc_unchecked(outcome, answer) == answer

\* lookup_dtc(): what it returns
lookup_dtc(outcome, answer) == IF outcome = "ok" THEN answer ELSE NoneDict

\* lookup_recalls(): what it returns
lookup_recalls(outcome, answer) == IF outcome = "ok" THEN answer ELSE <<>>

\* the search returns; react records the count and goes on to the next stage
SearchReturns ==
    /\ pc = "search"
    /\ \E outcome \in Outcomes, answer \in SearchAnswers :
        /\ outcome # "ok" => answer = <<>>
        /\ search_results' = search(outcome, answer)
        /\ failed' = (IF outcome = "ok" THEN failed ELSE failed \cup {"search"})
    /\ observations' = Append(observations,
                              [text |-> "Found {} relevant results",
                               n |-> Len(search_results')])
    /\ EnterStage(StageAfterSearch)
    /\ UNCHANGED service
    /\ UNCHANGED <<entry, query, vin, openai_api_key, validation, extracted_vin,
                   extracted_dtc, thoughts, dtc_info, recalls, result>>

\* the DTC lookup returns
DtcLookupReturns ==
    /\ pc = "lookup_dtc"
    /\ \E outcome \in Outcomes :
        /\ dtc_info' = lookup_dtc(outcome, DtcAnswer(extracted_dtc))
        /\ failed' = (IF outcome = "ok" THEN failed ELSE failed \cup {"lookup_dtc"})
    /\ observations' = Append(observations,
                              IF TruthyDict(dtc_info')
                              THEN [text |-> "Retrieved detailed DTC information for {}",
                                    code |-> extracted_dtc]
                              ELSE [text |-> "No detailed information found for DTC {}",
                                    code |-> extracted_dtc])
    /\ EnterStage(StageAfterDtc)
    /\ UNCHANGED service
    /\ UNCHANGED <<entry, query, vin, openai_api_key, validation, extracted_vin,
                   extracted_dtc, thoughts, search_results, recalls, result>>

\* the recall lookup returns
RecallLookupReturns ==
    /\ pc = "lookup_recalls"
    /\ \E outcome \in Outcomes, answer \in RecallAnswers :
        /\ outcome # "ok" => answer = <<>>
        /\ recalls' = lookup_recalls(outcome, answer)
        /\ failed' = (IF outcome = "ok" THEN failed ELSE failed \cup {"lookup_recalls"})
    /\ observations' = Append(observations,
                              [text |-> "Found {} recalls for VIN {}",
                               n |-> Len(recalls'), vin |-> extracted_vin])
    /\ EnterStage("synthesize")
    /\ UNCHANGED service
    /\ UNCHANGED <<entry, query, vin, openai_api_key, validation, extracted_vin,
                   extracted_dtc, thoughts, search_results, dtc_info, result>>

\* the dict react returns when an exception reaches its except clause
ErrorBundle(q, e) == [query |-> q, error |-> e.message]

\* the dict react returns at the end of its try block
Bundle(answer) ==
    [query |-> query, vin |-> extracted_vin, dtc_code |-> extracted_dtc,
     answer |-> answer, thoughts |-> thoughts', actions |-> actions,
     observations |-> observations, search_results |-> search_results,
     recalls |-> IF Truthy(extracted_vin) THEN recalls ELSE <<>>]

\* reading the local `recalls` as an argument raises when it was never assigned
ReadRecalls ==
    IF recalls = Unbound
    THEN [type |-> "UnboundLocalError",
          message |-> <<"local variable 'recalls' referenced before assignment">>]
    ELSE NoError

\* the last thought, the synthesis and the return
Synthesize ==
    /\ pc = "synthesize"
    /\ thoughts' = Append(thoughts, "Synthesizing all gathered information to provide a comprehensive diagnosis.")
    /\ IF ReadRecalls # NoError
       THEN /\ result' = ErrorBundle(query, ReadRecalls)
            /\ UNCHANGED failed
       ELSE IF openai_api_key
       THEN \E llm \in {"ok", "failed"} :
               LET r == generate_llm_response(query, search_results, extracted_dtc,
                                              extracted_vin, recalls, llm)
               IN  /\ failed' = (IF llm = "ok" THEN failed ELSE failed \cup {"llm"})
                   /\ calls' = Append(calls, [op |-> "ChatCompletion.create"])
                   /\ result' = (IF r.raised # NoError THEN ErrorBundle(query, r.raised)
                                 ELSE Bundle(r.value))
       ELSE /\ result' = Bundle(generate_fallback_response(query, search_results,
                                    extracted_dtc, extracted_vin, recalls))
            /\ UNCHANGED failed
    /\ IF ReadRecalls = NoError /\ openai_api_key THEN TRUE ELSE UNCHANGED calls
    /\ pc' = "done"
    /\ UNCHANGED service
    /\ UNCHANGED <<entry, query, vin, openai_api_key, validation, extracted_vin,
                   extracted_dtc, actions, observations, search_results, dtc_info,
                   recalls>>

Next ==
    \/ React
    \/ RunAgentDiagnosis
    \/ SearchReturns
    \/ DtcLookupReturns
    \/ RecallLookupReturns
    \/ Synthesize

Spec == Init /\ [][Next]_vars

----------------------------------------------------------------------------
(* The synthesis functions called on their own. *)

InitSynth ==
    /\ pc = "start"
    /\ NoService
    /\ entry = "synthesis"
    /\ query = ScenarioQuery
    /\ vin = None
    /\ openai_api_key = TRUE
    /\ validation = NoneDict
    /\ extracted_vin \in {None, Vin2}
    /\ extracted_dtc \in {None, DtcP0420}
    /\ thoughts = <<>>
    /\ actions = <<>>
    /\ observations = <<>>
    /\ search_results \in SeqsUpTo({DocDtc, DocRecall, DocOther}, MaxResults)
    /\ dtc_info = NoneDict
    /\ recalls \in SeqsUpTo({RecallRow, RecallRowBare}, MaxRecalls)
    /\ calls = <<>>
    /\ failed = {}
    /\ result = NoneDict

\* _generate_fallback_response(query, search_results, dtc_code, vin, recalls)
FallbackResponse ==
    /\ pc = "start"
    /\ entry = "synthesis"
    /\ pc' = "fallback"
    /\ result' = [raised |-> NoError,
                  value |-> generate_fallback_response(query, search_results,
                                extracted_dtc, extracted_vin, recalls)]
    /\ UNCHANGED service
    /\ UNCHANGED <<entry, query, vin, openai_api_key, validation, extracted_vin,
                   extracted_dtc, thoughts, actions, observations, search_results,
                   dtc_info, recalls, calls, failed>>

\* _generate_llm_response(query, search_results, dtc_code, vin, recalls)
LlmResponse ==
    /\ pc = "start"
    /\ entry = "synthesis"
    /\ pc' = "llm"
    /\ \E llm \in {"ok", "failed"} :
        /\ failed' = (IF llm = "ok" THEN failed ELSE failed \cup {"llm"})
        /\ result' = generate_llm_response(query, search_results, extracted_dtc,
                                           extracted_vin, recalls, llm)
    /\ calls' = Append(calls, [op |-> "ChatCompletion.create"])
    /\ UNCHANGED service
    /\ UNCHANGED <<entry, query, vin, openai_api_key, validation, extracted_vin,
                   extracted_dtc, thoughts, actions, observations, search_results,
                   dtc_info, recalls>>

NextSynth == FallbackResponse \/ LlmResponse

SpecSynth == InitSynth /\ [][NextSynth]_vars

----------------------------------------------------------------------------
(* api_local.py, api.py, index/build_index.py: the retrieval service.       *)
(* A score is an exact decimal counted in thousandths: 1.0 is One.          *)

One == 1000
ExactMatchScore == 800
OverlapScore == 100
VinMatchScore == 500
VectorWeight == 700
Bm25Weight == 300
Bm25Divisor == 10

\* the rows the dtc table can hold, in store order
DtcTable ==
    << [code |-> DtcP0420, category |-> <<"E", "n", "g", "i", "n", "e">>,
        description |-> <<"C", "a", "t", "a", "l", "y", "s", "t">>],
       [code |-> <<"P", "0", "3", "0", "0">>, category |-> <<"E", "n", "g", "i", "n", "e">>,
        description |-> <<"M", "i", "s", "f", "i", "r", "e">>],
       [code |-> <<"P", "0", "7", "0", "0">>, category |-> <<"G", "e", "a", "r", "b", "o", "x">>,
        description |-> <<"C", "a", "t", "a", "l", "y", "s", "t">>] >>

\* the rows the recall table can hold, in store order; the third has no VIN
RecallTable ==
    << [nhtsa_id |-> PyInt(<<"1">>), vin |-> Vin1, date |-> <<"2", "0", "2", "4">>,
        summary |-> <<"A", "i", "r", "b", "a", "g", " ", "r", "e", "c", "a", "l", "l">>],
       [nhtsa_id |-> PyInt(<<"2">>), vin |-> Vin2, date |-> <<"2", "0", "2", "4">>,
        summary |-> <<"B", "r", "a", "k", "e", " ", "r", "e", "c", "a", "l", "l">>],
       [nhtsa_id |-> PyInt(<<"3">>), vin |-> None, date |-> None,
        summary |-> <<"A", "i", "r", "b", "a", "g", " ", "r", "e", "c", "a", "l", "l">>],
       [nhtsa_id |-> PyInt(<<"4">>), vin |-> Vin1, date |-> <<"2", "0", "2", "5">>,
        summary |-> <<"B", "r", "a", "k", "e", " ", "r", "e", "c", "a", "l", "l">>] >>

\* the first n rows of a table, and the last n rows latest first
Rows(table, n) ==
    LET m == IF n < Len(table) THEN n ELSE Len(table)
    IN  {SubSeq(table, 1, j) : j \in 0..m}
        \cup {[i \in 1..j |-> table[Len(table) + 1 - i]] : j \in 0..m}

\* the stores the service runs on
Stores ==
    {[dtc |-> d, recall |-> r] : d \in Rows(DtcTable, MaxDtcRows),
                                 r \in Rows(RecallTable, MaxRecallRows)}

\* SearchRequest's Field(max_length=500) on query
QueryMaxLength == 500

\* the search requests: queries with and without a VIN, a VIN typed in lower
\* case, a filter_type (a one-symbol text), and queries the request model
\* does not admit
SearchRequests ==
    {[query |-> q, k |-> n, vin |-> v, filter_type |-> None] :
        q \in { <<"p", "0", "4", "2", "0">>,
                <<"r", "e", "c", "a", "l", "l">>,
                <<"A", "i", "r", "b", "a", "g", " ", "r", "e", "c", "a", "l", "l">>,
                <<"e", "n", "g", "i", "n", "e">>,
                <<"z", "z", "z">> },
        n \in 1..MaxK,
        v \in {None, Vin1, Vin2}}
    \cup
    {[query |-> <<"r", "e", "c", "a", "l", "l">>, k |-> n, vin |-> Vin1Lower,
      filter_type |-> None] : n \in 1..MaxK}
    \cup
    {[query |-> q, k |-> n, vin |-> None, filter_type |-> <<"dtc">>] :
        q \in { <<"r", "e", "c", "a", "l", "l">>, <<"e", "n", "g", "i", "n", "e">> },
        n \in 1..MaxK}
    \cup
    {[query |-> q, k |-> n, vin |-> None, filter_type |-> None] :
        q \in { <<>>, PadTo(<<>>, QueryMaxLength + 1, "A") },
        n \in 1..MaxK}

\* what the request model finds wrong with the body: Field(min_length=1,
\* max_length=500) on query; the framework answers 422 when there is any
query_errors(req) ==
    (IF Len(req.query) < 1 THEN {"string_too_short"} ELSE {})
    \cup (IF Len(req.query) > QueryMaxLength THEN {"string_too_long"} ELSE {})

\* f"DTC {code} ({category}): {desc}" and f"Recall {rid} ({date}): {summ}"
DocText(kind, id, bracketed, rest) ==
    kind \o <<" ">> \o Str(id) \o <<" ", "(">> \o Str(bracketed) \o <<")", ":", " ">> \o Str(rest)

\* the list build_bm25_index makes of the store: DTC rows, then recall rows
indexed_documents(store) ==
    [i \in 1..Len(store.dtc) |->
        LET r == store.dtc[i]
        IN  [text |-> DocText(<<"D", "T", "C">>, r.code, r.category, r.description),
             type |-> "dtc", code |-> r.code, category |-> r.category,
             description |-> r.description]]
    \o
    [i \in 1..Len(store.recall) |->
        LET r == store.recall[i]
        IN  [text |-> DocText(<<"R", "e", "c", "a", "l", "l">>, r.nhtsa_id, r.date, r.summary),
             type |-> "recall", rid |-> Str(r.nhtsa_id), vin |-> r.vin,
             date |-> IF Truthy(r.date) THEN Str(r.date) ELSE None,
             summary |-> r.summary]]

\* the list search_local makes of the store, before scoring
local_documents(store) ==
    [i \in 1..Len(store.dtc) |->
        LET r == store.dtc[i]
        IN  [text |-> DocText(<<"D", "T", "C">>, r.code, r.category, r.description),
             type |-> "dtc", code |-> r.code, category |-> r.category,
             description |-> r.description, score |-> 0]]
    \o
    [i \in 1..Len(store.recall) |->
        LET r == store.recall[i]
        IN  [text |-> DocText(<<"R", "e", "c", "a", "l", "l">>, r.nhtsa_id, r.date, r.summary),
             type |-> "recall", rid |-> r.nhtsa_id, vin |-> r.vin,
             date |-> r.date, summary |-> r.summary, score |-> 0]]

\* the list with the equal scores of neighbours in the opposite order
sort_ties_reversed(l) ==
    LET before(i) == {j \in DOMAIN l : \/ l[j].score > l[i].score
                                       \/ l[j].score = l[i].score /\ j > i}
    IN  [p \in DOMAIN l |-> l[CHOOSE i \in DOMAIN l : Cardinality(before(i)) = p - 1]]

\* the list sorted by rising score
sort_ascending(l) ==
    LET before(i) == {j \in DOMAIN l : \/ l[j].score < l[i].score
                                       \/ l[j].score = l[i].score /\ j < i}
    IN  [p \in DOMAIN l |-> l[CHOOSE i \in DOMAIN l : Cardinality(before(i)) = p - 1]]

\* list.sort(key=lambda x: x["score"], reverse=True): falling score, and the
\* sort is stable, so documents of equal score keep their order
sort_by_score(l) ==
    LET before(i) == {j \in DOMAIN l : \/ l[j].score > l[i].score
                                       \/ l[j].score = l[i].score /\ j < i}
    IN  [p \in DOMAIN l |-> l[CHOOSE i \in DOMAIN l : Cardinality(before(i)) = p - 1]]

\* the score with the VIN compared as typed
keyword_score_vin_as_typed(doc, q, v) ==
    LET query_lower == Lower(q)
        text_lower == Lower(doc.text)
        overlap == Cardinality(Range(Split(query_lower)) \cap Range(Split(text_lower)))
        score == (IF Contains(query_lower, text_lower) THEN ExactMatchScore ELSE 0)
                 + overlap * OverlapScore
                 + (IF /\ Truthy(v)
                       /\ Truthy(Get(doc, "vin", None))
                       /\ Contains(v, doc.vin)
                    THEN VinMatchScore ELSE 0)
    IN  IF score < One THEN score ELSE One

\* search_local's score of one document
keyword_score(doc, q, v) ==
    LET query_lower == Lower(q)
        text_lower == Lower(doc.text)
        overlap == Cardinality(Range(Split(query_lower)) \cap Range(Split(text_lower)))
        score == (IF Contains(query_lower, text_lower) THEN ExactMatchScore ELSE 0)
                 + overlap * OverlapScore
                 + (IF /\ Truthy(v)
                       /\ Truthy(Get(doc, "vin", None))
                       /\ Contains(Upper(v), Upper(doc.vin))
                    THEN VinMatchScore ELSE 0)
    IN  IF score < One THEN score ELSE One

\* search_local's documents, scored and sorted
search_local_sorted(q, v) ==
    LET docs == local_documents(db)
    IN  sort_by_score([i \in DOMAIN docs |->
                          [docs[i] EXCEPT !.score = keyword_score(docs[i], q, v)]])

\* search_local(query, k, vin), once the embedding model is there
search_local(q, k, v) == Take(search_local_sorted(q, v), k)

\* the sequences that take their i-th member from the i-th set
RECURSIVE Choices(_)
Choices(sets) ==
    IF sets = <<>> THEN {<<>>}
    ELSE {<<x>> \o rest : x \in Head(sets), rest \in Choices(Tail(sets))}

\* raw scores of the lexical index: below zero, below the divisor, above it
RawScores == {-500, 2500, 15000}

\* BM25Okapi(tokenized_docs).get_scores(query_tokens): one raw score for each
\* document, 0 for a document that holds no token of the query
get_scores(index, query_tokens) ==
    Choices([i \in DOMAIN index.corpus |->
                IF Range(index.corpus[i]) \cap Range(query_tokens) = {}
                THEN {0} ELSE RawScores])

\* the lexical score without the cap at 1.0
bm25_score_uncapped(raw) == IF raw > 0 THEN raw \div Bm25Divisor ELSE 0

\* min(bm25_scores[i] / 10.0, 1.0) if bm25_scores[i] > 0 else 0.0
bm25_score(raw) ==
    IF raw > 0
    THEN (IF raw \div Bm25Divisor < One THEN raw \div Bm25Divisor ELSE One)
    ELSE 0

\* hybrid_search's entry for one document of the corpus
combined_result(doc, vector_results, raw) ==
    LET hits == {j \in DOMAIN vector_results :
                    \/ Get(doc, "code", None) = Get(vector_results[j], "code", None)
                    \/ Get(doc, "rid", None) = Get(vector_results[j], "rid", None)}
        vector_score == IF hits = {} THEN 0
                        ELSE Get(vector_results[CHOOSE j \in hits : \A h \in hits : j <= h],
                                 "score", 0)
        combined_score == (VectorWeight * vector_score + Bm25Weight * bm25_score(raw)) \div One
    IN  ("score" :> combined_score @@ "vector_score" :> vector_score
         @@ "bm25_score" :> bm25_score(raw)) @@ doc

\* hybrid_search's local list after the sort: search_local's list when the
\* corpus or the index is missing, the blended list otherwise
hybrid_sorted(q, k, v, bm25_scores) ==
    IF ~TruthyList(documents) \/ ~TruthyDict(bm25_index)
    THEN search_local_sorted(q, v)
    ELSE LET vector_results == search_local(q, k * 2, v)
             kept == SelectSeq([i \in DOMAIN documents |-> i],
                               LAMBDA i : ~(/\ Truthy(v)
                                            /\ Truthy(Get(documents[i], "vin", None))
                                            /\ documents[i].vin # v))
         IN  sort_by_score([p \in DOMAIN kept |->
                               combined_result(documents[kept[p]], vector_results,
                                               bm25_scores[kept[p]])])

\* index/build_index.py iter_text: the payloads of the points in the collection
iter_text(store) ==
    [i \in 1..Len(store.dtc) |->
        [type |-> "dtc", code |-> store.dtc[i].code, category |-> store.dtc[i].category]]
    \o
    [i \in 1..Len(store.recall) |->
        LET r == store.recall[i]
        IN  [type |-> "recall", rid |-> r.nhtsa_id, vin |-> r.vin,
             date |-> IF Truthy(r.date) THEN Str(r.date) ELSE None]]

\* cosine similarities the vector store can give a point
Similarities == {300, 900}

\* qdrant_client.search with Filter(must=[...]) of the vin and the type
\* conditions the request gives: the points that meet them, best similarity first
qdrant_sorted(payloads, v, filter_type, similarity) ==
    LET matching == SelectSeq([i \in DOMAIN payloads |-> i],
                              LAMBDA i : /\ Truthy(v) => /\ "vin" \in DOMAIN payloads[i]
                                                         /\ payloads[i].vin = v
                                         /\ Truthy(filter_type) =>
                                                <<payloads[i].type>> = filter_type)
    IN  sort_by_score([p \in DOMAIN matching |->
                          ("score" :> similarity[matching[p]]) @@ payloads[matching[p]]])

InitSearch ==
    /\ pc = "start"
    /\ entry \in {"api_local", "api"}
    /\ query = <<>>
    /\ vin = None
    /\ openai_api_key = FALSE
    /\ NoRun
    /\ model = None
    /\ dtc_arg = None
    /\ db \in Stores
    /\ documents = <<>>
    /\ bm25_index = NoneDict
    /\ combined_results = <<>>
    /\ request \in SearchRequests
    /\ response = NoneDict
    /\ Idle

\* api_local's startup_event, after init_database: build_bm25_index
Startup ==
    /\ pc = "start"
    /\ entry = "api_local"
    /\ pc' = "ready"
    /\ documents' = indexed_documents(db)
    /\ bm25_index' = IF TruthyList(documents')
                     THEN [corpus |-> [i \in DOMAIN documents' |->
                                          Split(Lower(documents'[i].text))]]
                     ELSE bm25_index
    /\ UNCHANGED <<model, dtc_arg, db, combined_results, request, response,
                   qdrant, up, callers, constructed, served>>
    /\ UNCHANGED <<entry, query, vin, openai_api_key, validation, extracted_vin,
                   extracted_dtc, thoughts, actions, observations, search_results,
                   dtc_info, recalls, calls, failed, result>>

\* api_local's POST /search: the embedding-model dependency, the validation of
\* the body, then hybrid_search
Search ==
    /\ pc \in {"start", "ready"}
    /\ entry = "api_local"
    /\ pc' = "searched"
    /\ \E loads \in BOOLEAN :
          IF model = None /\ ~loads
          THEN /\ response' = [status |-> 500]
               /\ UNCHANGED <<model, combined_results>>
          ELSE /\ model' = <<"SentenceTransformer">>
               /\ IF query_errors(request) # {}
                  THEN /\ response' = [status |-> 422]
                       /\ UNCHANGED combined_results
                  ELSE /\ \E bm25_scores \in
                               (IF TruthyDict(bm25_index)
                                THEN get_scores(bm25_index, Split(Lower(request.query)))
                                ELSE {<<>>}) :
                             combined_results' =
                                 hybrid_sorted(request.query, request.k, request.vin,
                                               bm25_scores)
                       /\ response' = [status |-> 200,
                                       results |-> Take(combined_results', request.k),
                                       query |-> request.query,
                                       total_found |-> Len(Take(combined_results', request.k))]
    /\ UNCHANGED <<dtc_arg, db, documents, bm25_index, request,
                   qdrant, up, callers, constructed, served>>
    /\ UNCHANGED <<entry, query, vin, openai_api_key, validation, extracted_vin,
                   extracted_dtc, thoughts, actions, observations, search_results,
                   dtc_info, recalls, calls, failed, result>>

\* api's POST /search against the vector store: the dependencies, the
\* validation of the body, then the filtered search
QdrantSearch ==
    /\ pc = "start"
    /\ entry = "api"
    /\ pc' = "searched"
    /\ \E available \in BOOLEAN :
          IF ~available
          THEN /\ response' = [status |-> 500]
               /\ UNCHANGED <<model, combined_results>>
          ELSE /\ model' = <<"SentenceTransformer">>
               /\ IF query_errors(request) # {}
                  THEN /\ response' = [status |-> 422]
                       /\ UNCHANGED combined_results
                  ELSE /\ \E similarity \in [DOMAIN iter_text(db) -> Similarities] :
                             combined_results' =
                                 qdrant_sorted(iter_text(db), request.vin,
                                               request.filter_type, similarity)
                       /\ response' = [status |-> 200,
                                       results |-> Take(combined_results', request.k),
                                       query |-> request.query,
                                       total_found |-> Len(Take(combined_results', request.k))]
    /\ UNCHANGED <<dtc_arg, db, documents, bm25_index, request,
                   qdrant, up, callers, constructed, served>>
    /\ UNCHANGED <<entry, query, vin, openai_api_key, validation, extracted_vin,
                   extracted_dtc, thoughts, actions, observations, search_results,
                   dtc_info, recalls, calls, failed, result>>

NextSearch == Startup \/ Search \/ QdrantSearch

SpecSearch == InitSearch /\ [][NextSearch]_vars

----------------------------------------------------------------------------
\* The service over its life: api_local's start-up, statement by statement,
\* then the endpoints GET /dtc/{code} and GET /health and the dependency
\* get_qdrant_client, as often as MaxServed allows.

\* how many requests a process answers
MaxServed == 2

\* the codes asked of GET /dtc/{code}
DtcPaths ==
    { DtcP0420,
      Lower(DtcP0420),
      <<"P", "0", "3", "0", "0">>,
      <<"P", "9", "9", "9", "9">>,
      <<"I", "N", "V", "A", "L", "I", "D">> }

\* the index of the list without its last document
BM25Okapi_short(docs) ==
    [corpus |-> [i \in 1..(Len(docs) - 1) |-> Split(Lower(docs[i].text))]]

\* BM25Okapi(tokenized_docs) of a document list
BM25Okapi(docs) == [corpus |-> [i \in DOMAIN docs |-> Split(Lower(docs[i].text))]]

\* the positions at which the process answers requests
Serving == {"ready", "dtc_answered", "health_answered", "client_resolved"}

InitService ==
    /\ entry \in {"api_local", "api"}
    /\ pc = IF entry = "api_local" THEN "start" ELSE "ready"
    /\ query = <<>>
    /\ vin = None
    /\ openai_api_key = FALSE
    /\ NoRun
    /\ model = None
    /\ dtc_arg = None
    /\ db \in Stores
    /\ documents = <<>>
    /\ bm25_index = NoneDict
    /\ combined_results = <<>>
    /\ request = NoneDict
    /\ response = NoneDict
    /\ qdrant = NoneDict
    /\ up \in SUBSET Services
    /\ callers = <<>>
    /\ constructed = 0
    /\ served = 0

\* build_bm25_index: documents = []
BuildReset ==
    /\ pc = "start"
    /\ entry = "api_local"
    /\ pc' = "emptied"
    /\ documents' = <<>>
    /\ UNCHANGED <<model, dtc_arg, db, bm25_index, combined_results, request, response,
                   qdrant, up, callers, constructed, served>>
    /\ UNCHANGED <<entry, query, vin, openai_api_key, validation, extracted_vin,
                   extracted_dtc, thoughts, actions, observations, search_results,
                   dtc_info, recalls, calls, failed, result>>

\* build_bm25_index: the loop over the dtc rows
BuildDtc ==
    /\ pc = "emptied"
    /\ pc' = "dtc_added"
    /\ documents' = documents \o SubSeq(indexed_documents(db), 1, Len(db.dtc))
    /\ UNCHANGED <<model, dtc_arg, db, bm25_index, combined_results, request, response,
                   qdrant, up, callers, constructed, served>>
    /\ UNCHANGED <<entry, query, vin, openai_api_key, validation, extracted_vin,
                   extracted_dtc, thoughts, actions, observations, search_results,
                   dtc_info, recalls, calls, failed, result>>

\* build_bm25_index: the loop over the recall rows
BuildRecalls ==
    /\ pc = "dtc_added"
    /\ pc' = "recalls_added"
    /\ documents' = documents \o SubSeq(indexed_documents(db), Len(db.dtc) + 1,
                                         Len(db.dtc) + Len(db.recall))
    /\ UNCHANGED <<model, dtc_arg, db, bm25_index, combined_results, request, response,
                   qdrant, up, callers, constructed, served>>
    /\ UNCHANGED <<entry, query, vin, openai_api_key, validation, extracted_vin,
                   extracted_dtc, thoughts, actions, observations, search_results,
                   dtc_info, recalls, calls, failed, result>>

\* build_bm25_index: if documents: bm25_index = BM25Okapi(tokenized_docs);
\* start-up is over when it returns
BuildIndex ==
    /\ pc = "recalls_added"
    /\ pc' = "ready"
    /\ bm25_index' = IF TruthyList(documents) THEN BM25Okapi(documents) ELSE bm25_index
    /\ UNCHANGED <<model, dtc_arg, db, documents, combined_results, request, response,
                   qdrant, up, callers, constructed, served>>
    /\ UNCHANGED <<entry, query, vin, openai_api_key, validation, extracted_vin,
                   extracted_dtc, thoughts, actions, observations, search_results,
                   dtc_info, recalls, calls, failed, result>>

\* get_dtc_info with the code compared as typed
get_dtc_info_as_typed(store, code) ==
    LET rows == SelectSeq(store.dtc, LAMBDA r : r.code = code)
        raised == IF "database" \notin up THEN "Exception"
                  ELSE IF rows = <<>> THEN "HTTPException" ELSE "none"
    IN  IF raised = "HTTPException" THEN [status |-> 404]
        ELSE IF raised = "Exception" THEN [status |-> 500]
        ELSE [status |-> 200,
              body |-> [code |-> rows[1].code, category |-> rows[1].category,
                        description |-> rows[1].description]]

\* get_dtc_info(code): the row whose code is code.upper(); the HTTPException
\* of a missing row is raised again, any other exception becomes a 500
get_dtc_info(store, code) ==
    LET rows == SelectSeq(store.dtc, LAMBDA r : r.code = Upper(code))
        raised == IF "database" \notin up THEN "Exception"
                  ELSE IF rows = <<>> THEN "HTTPException" ELSE "none"
    IN  IF raised = "HTTPException" THEN [status |-> 404]
        ELSE IF raised = "Exception" THEN [status |-> 500]
        ELSE [status |-> 200,
              body |-> [code |-> rows[1].code, category |-> rows[1].category,
                        description |-> rows[1].description]]

\* GET /dtc/{code}
GetDtcInfo ==
    /\ pc \in Serving
    /\ served < MaxServed
    /\ pc' = "dtc_answered"
    /\ served' = served + 1
    /\ \E code \in DtcPaths :
          /\ dtc_arg' = code
          /\ response' = get_dtc_info(db, code)
    /\ UNCHANGED <<model, db, documents, bm25_index, combined_results, request,
                   qdrant, up, callers, constructed>>
    /\ UNCHANGED <<entry, query, vin, openai_api_key, validation, extracted_vin,
                   extracted_dtc, thoughts, actions, observations, search_results,
                   dtc_info, recalls, calls, failed, result>>

\* get_embedding_model() called on the event loop: the global afterwards,
\* and whether it raised
embedding_model_call ==
    [model |-> IF model = None /\ "embedding_model" \in up
               THEN <<"SentenceTransformer">> ELSE model,
     raised |-> model = None /\ "embedding_model" \notin up]

\* get_qdrant_client(): the global afterwards, and whether it raised. The
\* client is bound to the global before get_collections() tests it; tested
\* records how that test ended
qdrant_client_call ==
    [qdrant |-> IF ~TruthyDict(qdrant) THEN [tested |-> "qdrant" \in up] ELSE qdrant,
     raised |-> ~TruthyDict(qdrant) /\ "qdrant" \notin up]

\* get_qdrant_client() for a dependant: result holds what it raised and what
\* it returned
GetQdrantClient ==
    /\ pc \in Serving
    /\ entry = "api"
    /\ served < MaxServed
    /\ pc' = "client_resolved"
    /\ served' = served + 1
    /\ qdrant' = qdrant_client_call.qdrant
    /\ result' = IF qdrant_client_call.raised
                 THEN [raised |-> TRUE, value |-> NoneDict]
                 ELSE [raised |-> FALSE, value |-> qdrant']
    /\ UNCHANGED <<model, dtc_arg, db, documents, bm25_index, combined_results, request,
                   response, up, callers, constructed>>
    /\ UNCHANGED <<entry, query, vin, openai_api_key, validation, extracted_vin,
                   extracted_dtc, thoughts, actions, observations, search_results,
                   dtc_info, recalls, calls, failed>>

Healthy == <<"h", "e", "a", "l", "t", "h", "y">>

\* f"unhealthy: {str(e)}"
Unhealthy(e) == <<"u", "n", "h", "e", "a", "l", "t", "h", "y", ":", " ">> \o e

\* "healthy" if all("healthy" in status for status in services.values())
\* else "degraded"
overall_status(services) ==
    IF \A name \in DOMAIN services : Contains(Healthy, services[name])
    THEN "healthy" ELSE "degraded"

\* GET /health: every check, then the overall status
HealthCheck ==
    /\ pc \in Serving
    /\ served < MaxServed
    /\ pc' = "health_answered"
    /\ served' = served + 1
    /\ model' = embedding_model_call.model
    /\ qdrant' = IF entry = "api" THEN qdrant_client_call.qdrant ELSE qdrant
    /\ LET embedding == IF embedding_model_call.raised
                        THEN Unhealthy(<<"500: Embedding model not available">>)
                        ELSE Healthy
           vectors == IF qdrant_client_call.raised
                      THEN Unhealthy(<<"500: Vector database not available">>)
                      ELSE Healthy
           database == IF "database" \notin up
                       THEN Unhealthy(<<"OperationalError">>)
                       ELSE Healthy
           services == IF entry = "api"
                       THEN [embedding_model |-> embedding, qdrant |-> vectors,
                             database |-> database]
                       ELSE [embedding_model |-> embedding, database |-> database]
       IN  response' = [status |-> 200,
                        body |-> [status |-> overall_status(services),
                                  services |-> services]]
    /\ UNCHANGED <<dtc_arg, db, documents, bm25_index, combined_results, request,
                   up, callers, constructed>>
    /\ UNCHANGED <<entry, query, vin, openai_api_key, validation, extracted_vin,
                   extracted_dtc, thoughts, actions, observations, search_results,
                   dtc_info, recalls, calls, failed, result>>

NextService ==
    \/ BuildReset \/ BuildDtc \/ BuildRecalls \/ BuildIndex
    \/ GetDtcInfo \/ GetQdrantClient \/ HealthCheck

SpecService == InitService /\ [][NextService]_vars

----------------------------------------------------------------------------
\* get_embedding_model as a dependency: the framework runs it in a pool of
\* worker threads, one call for each request in flight, and the calls
\* interleave between the test of the global, the assignment and the return.

\* how many requests are in flight at once
MaxCallers == 3

InitLoad ==
    /\ pc = "ready"
    /\ entry \in {"api_local", "api"}
    /\ query = <<>>
    /\ vin = None
    /\ openai_api_key = FALSE
    /\ NoRun
    /\ model = None
    /\ dtc_arg = None
    /\ db = [dtc |-> <<>>, recall |-> <<>>]
    /\ documents = <<>>
    /\ bm25_index = NoneDict
    /\ combined_results = <<>>
    /\ request = NoneDict
    /\ response = NoneDict
    /\ qdrant = NoneDict
    /\ up = Services
    /\ callers = [t \in 1..MaxCallers |-> [at |-> "called", got |-> None]]
    /\ constructed = 0
    /\ served = 0

\* if model is None:
TestModel(t) ==
    /\ callers[t].at = "called"
    /\ callers' = [callers EXCEPT ![t].at = IF model = None THEN "constructing"
                                                            ELSE "returning"]
    /\ UNCHANGED <<model, constructed>>

\* model = SentenceTransformer(...), or the HTTPException when that raises
AssignModel(t) ==
    /\ callers[t].at = "constructing"
    /\ \E loads \in BOOLEAN :
          IF loads
          THEN /\ constructed' = constructed + 1
               /\ model' = <<"SentenceTransformer", constructed'>>
               /\ callers' = [callers EXCEPT ![t].at = "returning"]
          ELSE /\ callers' = [callers EXCEPT ![t].at = "raised"]
               /\ UNCHANGED <<model, constructed>>

\* return model
ReturnModel(t) ==
    /\ callers[t].at = "returning"
    /\ callers' = [callers EXCEPT ![t] = [at |-> "returned", got |-> model]]
    /\ UNCHANGED <<model, constructed>>

NextLoad ==
    /\ \E t \in 1..MaxCallers : TestModel(t) \/ AssignModel(t) \/ ReturnModel(t)
    /\ UNCHANGED <<dtc_arg, db, documents, bm25_index, combined_results, request,
                   response, qdrant, up, served>>
    /\ UNCHANGED <<pc, entry, query, vin, openai_api_key, validation, extracted_vin,
                   extracted_dtc, thoughts, actions, observations, search_results,
                   dtc_info, recalls, calls, failed, result>>

SpecLoad == InitLoad /\ [][NextLoad]_vars

----------------------------------------------------------------------------
(* Vocabulary of the properties. *)

\* exactly 17 characters, each a digit or an upper-case letter other than I, O, Q
IsValidVin(v) ==
    /\ Len(v) = 17
    /\ \A i \in DOMAIN v : v[i] \in Digits \/ (v[i] \in UpperSet /\ v[i] \notin {"I", "O", "Q"})

\* [PBCU][0-9]{4}
IsValidDtc(c) ==
    /\ Len(c) = 5
    /\ c[1] \in {"P", "B", "C", "U"}
    /\ \A i \in 2..5 : c[i] \in Digits

\* empty or whitespace-only
Blank(q) == \A i \in DOMAIN q : q[i] \in Whitespace


Signatures ==
    { <<"<", "s", "c", "r", "i", "p", "t">>,
      <<"j", "a", "v", "a", "s", "c", "r", "i", "p", "t", ":">>,
      <<"d", "a", "t", "a", ":", "t", "e", "x", "t", "/", "h", "t", "m", "l">>,
      <<"v", "b", "s", "c", "r", "i", "p", "t", ":">> }

\* q contains one of the signatures, in any letter case
HasSignature(q) == \E sig \in Signatures : Contains(sig, Lower(q))

\* react has run (it records its first thought before anything else)
ReactRan == thoughts # <<>>

\* a VIN is present: supplied by the caller, or found in the query
VinPresent == Truthy(vin) \/ extract_vin(query) # None

\* the actions of a run on this query and VIN
ExpectedActions ==
    <<"search">>
    \o (IF extract_dtc_code(query) # None THEN <<"lookup_dtc">> ELSE <<>>)
    \o (IF VinPresent THEN <<"lookup_recalls">> ELSE <<>>)

\* str.split("\n")
RECURSIVE Lines(_)
Lines(text) ==
    LET breaks == {i \in DOMAIN text : text[i] = "\n"}
    IN  IF breaks = {} THEN <<text>>
        ELSE LET b == CHOOSE i \in breaks : \A j \in breaks : i <= j
             IN  <<SubSeq(text, 1, b - 1)>> \o Lines(SubSeq(text, b + 1, Len(text)))

\* the place of a line of the templated answer in the template's order
LineKind(l) ==
    IF l = <<>> THEN 0
    ELSE IF l[1] = "Diagnostic analysis for: " THEN 1
    ELSE IF l[1] = "\n**DTC Code Detected**: " THEN 2
    ELSE IF l[1] = "\n**Relevant Information Found**:" THEN 3
    ELSE IF l[1] \in {"- DTC ", "- Recall "} THEN 4
    ELSE IF l[1] = "\n**Recalls for VIN " THEN 5
    ELSE IF l[1] = "- " THEN 6
    ELSE IF l = ClosingLine THEN 7
    ELSE 0

CountKind(ls, k) == Cardinality({i \in DOMAIN ls : LineKind(ls[i]) = k})

----------------------------------------------------------------------------
(* Properties. *)

\* C1: a run of react on a valid query that contains a DTC code, with no
\* generative-model key configured, returns a bundle whose 'answer' is the
\* templated answer: it contains the DTC code and ends with the closing line.
C1_TemplatedAnswer ==
    (/\ pc = "done"
     /\ ReactRan
     /\ ~openai_api_key
     /\ validate_query(query) = NoError
     /\ extract_dtc_code(query) # None)
    => /\ "answer" \in DOMAIN result
       /\ Contains(extract_dtc_code(query), result.answer)
       /\ EndsWith(result.answer, ClosingLine)

\* C2: a run on a query that fails validation ends with an error result and
\* performs no search, no lookup and no synthesis.
C2_InvalidQueryStopsEarly ==
    (pc # "start" /\ validate_query(query) # NoError)
    => /\ pc = "done"
       /\ "error" \in DOMAIN result
       /\ calls = <<>>
       /\ actions = <<>>

\* C3: the recorded actions are 'search' once, then 'lookup_dtc' iff a DTC code
\* was extracted, then 'lookup_recalls' iff a VIN is present; none is repeated,
\* and synthesis starts only after every one of them has returned.
C3_ActionsInOrder ==
    LET expected == ExpectedActions
    IN  /\ Len(actions) <= Len(expected)
        /\ actions = SubSeq(expected, 1, Len(actions))
        /\ Cardinality({i \in DOMAIN calls : calls[i].op # "ChatCompletion.create"})
           = Len(actions)
        /\ (ReactRan /\ pc \in {"synthesize", "done"})
           => /\ actions = expected
              /\ Len(observations) = Len(actions)
        /\ (\E i \in DOMAIN calls : calls[i].op = "ChatCompletion.create")
           => /\ actions = expected
              /\ Len(observations) = Len(actions)
        /\ "answer" \in DOMAIN result => result.actions = expected

C3_Witness ==
    /\ pc = "done"
    /\ "answer" \in DOMAIN result
    /\ result.actions = <<"search", "lookup_dtc", "lookup_recalls">>
    /\ Len(observations) = 3

\* C4: a failed search, DTC lookup or recall lookup yields its empty result, and
\* the run goes on: its actions are those of a run in which no call failed.
C4_FailedStageDegrades ==
    /\ "search" \in failed => search_results = <<>>
    /\ "lookup_dtc" \in failed => dtc_info = NoneDict
    /\ "lookup_recalls" \in failed => recalls = <<>>
    /\ (pc = "done" /\ failed \cap {"search", "lookup_dtc", "lookup_recalls"} # {})
       => /\ actions = ExpectedActions
          /\ Len(observations) = Len(actions)
          /\ observations[1].n = 0 \/ "search" \notin failed

C4_Witness ==
    /\ pc = "done"
    /\ {"search", "lookup_dtc", "lookup_recalls"} \subseteq failed
    /\ actions = <<"search", "lookup_dtc", "lookup_recalls">>
    /\ "answer" \in DOMAIN result
    /\ result.search_results = <<>>
    /\ result.recalls = <<>>

\* C5: _generate_llm_response never raises, and when the model call fails it
\* returns the templated answer of _generate_fallback_response for the same
\* query, search results, DTC code, VIN and recalls.
C5_LlmFallsBack ==
    pc = "llm"
    => /\ result.raised = NoError
       /\ "llm" \in failed
          => result.value = generate_fallback_response(query, search_results,
                                extracted_dtc, extracted_vin, recalls)

C5_Witness ==
    /\ pc = "llm"
    /\ "llm" \in failed
    /\ Len(search_results) > 0
    /\ Len(recalls) > 0
    /\ EndsWith(result.value, ClosingLine)

\* C6: every VIN a run uses as retrieval filter or for the recall lookup, or
\* returns as 'vin', is a valid VIN, and every 'dtc_code' it returns matches
\* [PBCU][0-9]{4}, whatever the query and the caller's VIN.
C6_ValidIdentifiers ==
    /\ \A i \in DOMAIN calls :
        /\ (calls[i].op = "POST /search" /\ "vin" \in DOMAIN calls[i].payload)
           => IsValidVin(calls[i].payload.vin)
        /\ calls[i].op = "GET /recalls" => IsValidVin(calls[i].arg)
    /\ ("vin" \in DOMAIN result /\ result.vin # None) => IsValidVin(result.vin)
    /\ ("dtc_code" \in DOMAIN result /\ result.dtc_code # None)
       => IsValidDtc(result.dtc_code)

\* C7: the Retrieve stage searches with the sanitized query, the caller's VIN
\* if given and otherwise the extracted one, and k = 5, and records exactly one
\* observation giving the number of results.
C7_RetrieveSanitized ==
    ReactRan
    => /\ calls[1].op = "POST /search"
       /\ calls[1].payload =
              SearchPayload(sanitize_input(query),
                            IF Truthy(vin) THEN vin ELSE extract_vin(query), 5)
       /\ pc # "search"
          => /\ observations[1] = [text |-> "Found {} relevant results",
                                   n |-> Len(search_results)]
             /\ Cardinality({i \in DOMAIN observations :
                               observations[i].text = "Found {} relevant results"}) = 1

\* C8: the templated answer is, in this order: the query restatement; the DTC
\* callout iff a DTC code is present; at most 3 finding lines, one for each of
\* the first 3 search results of type dtc or recall, formatted by that type; at
\* most 2 recall summary lines, for the first 2 recalls; the closing line.
C8_TemplateOrder ==
    pc = "fallback"
    => LET ls == Lines(result.value)
           shown == SelectSeq(Take(search_results, 3),
                              LAMBDA r : r.type \in {<<"dtc">>, <<"recall">>})
           findings == SelectSeq(ls, LAMBDA l : LineKind(l) = 4)
           summaries == SelectSeq(ls, LAMBDA l : LineKind(l) = 6)
       IN  /\ \A i \in DOMAIN ls : LineKind(ls[i]) # 0
           /\ \A i, j \in DOMAIN ls : i < j => LineKind(ls[i]) <= LineKind(ls[j])
           /\ ls[1] = <<"Diagnostic analysis for: ">> \o query
           /\ CountKind(ls, 1) = 1
           /\ CountKind(ls, 2) = (IF extracted_dtc # None THEN 1 ELSE 0)
           /\ extracted_dtc # None => ls[2] = <<"\n**DTC Code Detected**: ">> \o extracted_dtc
           /\ Len(findings) = Len(shown)
           /\ Len(findings) <= 3
           /\ \A i \in DOMAIN findings :
                findings[i][1] = (IF shown[i].type = <<"dtc">> THEN "- DTC " ELSE "- Recall ")
           /\ Len(summaries) = (IF Len(recalls) < 2 THEN Len(recalls) ELSE 2)
           /\ \A i \in DOMAIN summaries :
                summaries[i] = <<"- ">> \o (IF "summary" \in DOMAIN recalls[i]
                                            THEN recalls[i].summary ELSE <<"No summary">>)
           /\ ls[Len(ls)] = ClosingLine
           /\ CountKind(ls, 7) = 1

C8_Witness ==
    /\ pc = "fallback"
    /\ Len(search_results) = 4
    /\ search_results[1].type = <<"recall">>
    /\ search_results[2].type = <<"sensor">>
    /\ search_results[4].type = <<"dtc">>
    /\ Len(recalls) = 3
    /\ extracted_dtc # None
    /\ Len(Lines(result.value)) = 9

\* C9 as stated: every query longer than 500 fails with LongInputError, and no
\* non-blank query of length at most 500 does.
C9_LongAlwaysTooLong ==
    pc = "validated"
    => /\ Len(query) > 500 => result.type = "LongInputError"
       /\ (Len(query) <= 500 /\ ~Blank(query)) => result.type # "LongInputError"

\* C9 amended: every non-blank query longer than 500 fails with LongInputError,
\* a whitespace-only one of that length fails with EmptyQueryError, and no
\* non-blank query of length at most 500 fails with LongInputError.
C9_NonBlankLongTooLong ==
    pc = "validated"
    => /\ (Len(query) > 500 /\ ~Blank(query)) => result.type = "LongInputError"
       /\ (Len(query) > 500 /\ Blank(query)) => result.type = "EmptyQueryError"
       /\ (Len(query) <= 500 /\ ~Blank(query)) => result.type # "LongInputError"

C9_Witness ==
    /\ pc = "validated"
    /\ Len(query) = 501
    /\ ~Blank(query)
    /\ result.type = "LongInputError"

\* C10: validate_query fails with EmptyQueryError on every blank text, with
\* MalformedInputError on every non-blank text of length at most 500 that holds
\* a signature in any letter case, and raises nothing on every other non-blank
\* text of length at most 500.
C10_ValidateQueryKinds ==
    pc = "validated"
    => /\ Blank(query) => result.type = "EmptyQueryError"
       /\ (~Blank(query) /\ Len(query) <= 500 /\ HasSignature(query))
          => result.type = "MalformedInputError"
       /\ (~Blank(query) /\ Len(query) <= 500 /\ ~HasSignature(query))
          => result = NoError

C10_Witness ==
    /\ pc = "validated"
    /\ result.type = "MalformedInputError"
    /\ \A sig \in Signatures : ~Contains(sig, query)
    /\ \E i \in DOMAIN query : query[i] \in UpperSet

\* C11 as stated: every 17-character string over the VIN alphabet comes back
\* upper-cased, and every string of another length, and every string with an
\* I, O or Q, fails with InvalidVINError.
C11_OtherLengthsFail ==
    (pc = "vin_validated" /\ vin # None) =>
        /\ (Len(vin) = VinLen /\ \A i \in DOMAIN vin : UpperChar(vin[i]) \in VinChars)
               => result = [raised |-> NoError, value |-> Upper(vin)]
        /\ (Len(vin) # VinLen \/ \E i \in DOMAIN vin : vin[i] \in {"I", "O", "Q"})
               => result.raised.type = "InvalidVINError"

\* C11, amended: a string that is 17 characters of the VIN alphabet (either
\* case) once its surrounding whitespace is removed comes back stripped and
\* upper-cased; the empty string comes back as None without a failure; every
\* other string (another stripped length, or an I, O, Q or other foreign
\* character in either case) fails with InvalidVINError.
C11_StrippedVinDecides ==
    (pc = "vin_validated" /\ vin # None) =>
        LET core == Strip(vin)
            wellFormed == /\ Len(core) = VinLen
                          /\ \A i \in DOMAIN core : UpperChar(core[i]) \in VinChars
        IN  /\ wellFormed => result = [raised |-> NoError, value |-> Upper(core)]
            /\ vin = <<>> => result = [raised |-> NoError, value |-> None]
            /\ (vin # <<>> /\ ~wellFormed) =>
                   result.raised.type = "InvalidVINError" /\ result.value = None

\* a padded lower-case VIN was accepted and came back normalised
C11_Witness ==
    /\ pc = "vin_validated"
    /\ vin # None
    /\ Len(vin) > VinLen
    /\ \E i \in DOMAIN vin : vin[i] \in LowerSet
    /\ result.raised = NoError
    /\ IsValidVin(result.value)

\* C12 as stated: every string matching [PBCUpbcu][0-9]{4} comes back
\* upper-cased, and every other string fails with InvalidDTCError.
C12_OtherStringsFail ==
    (pc = "dtc_validated" /\ dtc_arg # None) =>
        IF IsValidDtc(Upper(dtc_arg))
        THEN result = [raised |-> NoError, value |-> Upper(dtc_arg)]
        ELSE result.raised.type = "InvalidDTCError"

\* C12, amended: a string that matches [PBCUpbcu][0-9]{4} once its surrounding
\* whitespace is removed comes back stripped and upper-cased; the empty string
\* comes back as None without a failure; every other string fails with
\* InvalidDTCError.
C12_StrippedCodeDecides ==
    (pc = "dtc_validated" /\ dtc_arg # None) =>
        LET core == Strip(dtc_arg)
        IN  /\ IsValidDtc(Upper(core))
                   => result = [raised |-> NoError, value |-> Upper(core)]
            /\ dtc_arg = <<>> => result = [raised |-> NoError, value |-> None]
            /\ (dtc_arg # <<>> /\ ~IsValidDtc(Upper(core))) =>
                   result.raised.type = "InvalidDTCError" /\ result.value = None

\* a padded lower-case code was accepted and came back normalised
C12_Witness ==
    /\ pc = "dtc_validated"
    /\ dtc_arg # None
    /\ Len(dtc_arg) > DtcDigits + 1
    /\ dtc_arg[2] \in LowerSet
    /\ result.raised = NoError
    /\ IsValidDtc(result.value)

\* C13: ensure_valid_input never raises, and every failure it reports has
\* is_valid false, the kind of the error validate_query raised, and the
\* suggestion get_error_suggestion gives for that kind.
C13_FailureCarriesSuggestion ==
    pc = "processed" =>
        /\ "is_valid" \in DOMAIN validation
        /\ validation.is_valid = (validate_query(query) = NoError)
        /\ ~validation.is_valid =>
               /\ validation.error_type = validate_query(query).type
               /\ "suggestion" \in DOMAIN validation
               /\ validation.suggestion = get_error_suggestion(validation.error_type)

\* C14: a valid query with a caller VIN that validate_vin rejects is reported
\* as a validation failure of kind InvalidVINError, never as is_valid true.
C14_InvalidCallerVinFails ==
    (/\ pc = "processed"
     /\ validate_query(query) = NoError
     /\ validate_vin(vin).raised # NoError)
    => /\ ~validation.is_valid
       /\ validation.error_type = "InvalidVINError"

\* C15: when the query holds a valid VIN and the caller gives a valid VIN, the
\* processed input carries the caller's VIN normalised, and every search and
\* every recall lookup of the orchestrator uses that VIN.
C15_CallerVinWins ==
    LET given == validate_vin(vin)
    IN  (Truthy(vin) /\ given.raised = NoError /\ extract_vin(query) # None) =>
            /\ ("is_valid" \in DOMAIN validation /\ validation.is_valid)
                   => validation.vin = given.value
            /\ \A i \in DOMAIN calls :
                   /\ calls[i].op = "POST /search" =>
                          /\ "vin" \in DOMAIN calls[i].payload
                          /\ calls[i].payload.vin = given.value
                   /\ calls[i].op = "GET /recalls" => calls[i].arg = given.value

\* a search of api_local has answered with a result list
LocalAnswered == pc = "searched" /\ entry = "api_local" /\ response.status = 200

\* hybrid_search had its corpus and its lexical index
Indexed == TruthyList(documents) /\ TruthyDict(bm25_index)

\* the place of a scored document in the corpus: DTC rows, then recall rows
Place(d) == CHOOSE i \in DOMAIN local_documents(db) : local_documents(db)[i].text = d.text

\* C16: with a VIN filter, no document returned by api_local's search has a
\* vin that is set and differs from the filter, with or without the index.
C16_VinFilterExcludes ==
    (LocalAnswered /\ Truthy(request.vin)) =>
        \A i \in DOMAIN response.results :
            Truthy(Get(response.results[i], "vin", None))
                => response.results[i].vin = request.vin

\* C17: with a VIN filter, a search whose k covers the whole corpus returns
\* every DTC record and every recall without a vin, in api_local and in api.
C17_VinlessNeverExcluded ==
    (/\ pc = "searched"
     /\ response.status = 200
     /\ Truthy(request.vin)
     /\ Len(db.dtc) + Len(db.recall) <= request.k)
    => /\ \A r \in Range(db.dtc) :
              \E i \in DOMAIN response.results :
                  Get(response.results[i], "code", None) = r.code
       /\ \A r \in Range(db.recall) :
              ~Truthy(r.vin) =>
                  \E i \in DOMAIN response.results :
                      Str(Get(response.results[i], "rid", None)) = Str(r.nhtsa_id)

\* C18 as stated: in every result list of hybrid_search and search_local each
\* score is strictly greater than the next one.
C18_StrictlyDescending ==
    LocalAnswered =>
        \A i \in 1..(Len(response.results) - 1) :
            response.results[i].score > response.results[i + 1].score

\* C18, amended: in every result list of hybrid_search and search_local each
\* score is greater than or equal to the next one.
C18_NeverRising ==
    LocalAnswered =>
        \A i \in 1..(Len(response.results) - 1) :
            response.results[i].score >= response.results[i + 1].score

\* the sort moved a later document of the corpus ahead of an earlier one
C18_Witness ==
    /\ LocalAnswered
    /\ Indexed
    /\ Len(response.results) >= 2
    /\ response.results[1].score > response.results[2].score
    /\ Place(response.results[1]) > Place(response.results[2])

\* C19: documents of equal score come in corpus order (DTC rows in store
\* order, then recall rows), and the result list is the head of that order, so
\* no document is dropped for a later one of the same score.
C19_TiesInCorpusOrder ==
    LocalAnswered =>
        /\ \A i \in DOMAIN combined_results : \A j \in DOMAIN combined_results :
               (i < j /\ combined_results[i].score = combined_results[j].score)
                   => Place(combined_results[i]) < Place(combined_results[j])
        /\ Len(response.results) <= request.k
        /\ \A i \in DOMAIN response.results : response.results[i] = combined_results[i]
        /\ Len(response.results) < request.k
               => Len(response.results) = Len(combined_results)

\* a document was cut from the list while one of the same score stayed
C19_Witness ==
    /\ LocalAnswered
    /\ Indexed
    /\ Len(combined_results) > Len(response.results)
    /\ combined_results[Len(response.results)].score > 0
    /\ combined_results[Len(response.results)].score
           = combined_results[Len(response.results) + 1].score

\* C20 as stated: every result of hybrid_search has a vector score and a
\* lexical score in [0,1], the lexical score is raw/10 capped at 1 for a raw
\* score above zero and 0 otherwise, and score = 0.7 * vector + 0.3 * lexical.
C20_EveryResultBlended ==
    LocalAnswered =>
        \A i \in DOMAIN response.results :
            LET r == response.results[i]
                rescaled(raw) == IF raw <= 0 THEN 0
                                 ELSE IF raw >= 10 * 1000 THEN 1000
                                 ELSE raw \div 10
            IN  /\ {"score", "vector_score", "bm25_score"} \subseteq DOMAIN r
                /\ r.score * 10 = 7 * r.vector_score + 3 * r.bm25_score
                /\ r.score \in 0..1000
                /\ r.vector_score \in 0..1000
                /\ r.bm25_score \in {rescaled(raw) : raw \in RawScores \cup {0}}

\* C20, amended: that holds for every result hybrid_search returns when it has
\* its corpus and its lexical index; without them a result has a score in
\* [0,1] and neither a vector score nor a lexical score.
C20_IndexedResultsBlended ==
    LocalAnswered =>
        \A i \in DOMAIN response.results :
            LET r == response.results[i]
                rescaled(raw) == IF raw <= 0 THEN 0
                                 ELSE IF raw >= 10 * 1000 THEN 1000
                                 ELSE raw \div 10
            IN  IF Indexed
                THEN /\ {"score", "vector_score", "bm25_score"} \subseteq DOMAIN r
                     /\ r.score * 10 = 7 * r.vector_score + 3 * r.bm25_score
                     /\ r.score \in 0..1000
                     /\ r.vector_score \in 0..1000
                     /\ r.bm25_score \in {rescaled(raw) : raw \in RawScores \cup {0}}
                ELSE /\ "score" \in DOMAIN r
                     /\ r.score \in 0..1000
                     /\ "vector_score" \notin DOMAIN r
                     /\ "bm25_score" \notin DOMAIN r

\* one list holds a capped lexical score and an uncapped one above zero
C20_Witness ==
    /\ LocalAnswered
    /\ Indexed
    /\ \E i \in DOMAIN response.results :
           /\ response.results[i].bm25_score = 1000
           /\ response.results[i].vector_score > 0
    /\ \E i \in DOMAIN response.results :
           /\ response.results[i].bm25_score \in 1..999
           /\ response.results[i].score > 0

----------------------------------------------------------------------------
\* the tokens the lowercased query and the lowercased display text share
SharedTokens(d) ==
    {t \in Range(Split(Lower(request.query))) : t \in Range(Split(Lower(d.text)))}

\* the score the keyword-overlap search is said to give a document, the VIN
\* bonus being granted or not
OverlapScoreOf(d, vin_bonus) ==
    LET sum == (IF Contains(Lower(request.query), Lower(d.text)) THEN 800 ELSE 0)
               + 100 * Cardinality(SharedTokens(d))
               + (IF vin_bonus THEN 500 ELSE 0)
    IN  IF sum > 1000 THEN 1000 ELSE sum

\* the search answered without the corpus or without the lexical index: a
\* list of the store's documents, as many as asked for, none of them blended
DegradedAnswer ==
    /\ LocalAnswered
    /\ ~Indexed
    /\ LET n == Len(db.dtc) + Len(db.recall)
       IN  Len(response.results) = IF n < request.k THEN n ELSE request.k
    /\ \A i \in DOMAIN response.results :
          /\ "vector_score" \notin DOMAIN response.results[i]
          /\ \E j \in DOMAIN local_documents(db) :
                 local_documents(db)[j].text = response.results[i].text

\* C21 as stated: without the corpus or the index the search returns the
\* keyword-overlap result, each score being min(1, 0.8 for the lowercased
\* query inside the lowercased text + 0.1 per shared token + 0.5 when a VIN
\* filter is supplied and is a substring of the document's VIN).
C21_KeywordOverlapScore ==
    (LocalAnswered /\ ~Indexed) =>
        /\ DegradedAnswer
        /\ \A i \in DOMAIN response.results :
              LET d == response.results[i]
              IN  d.score = OverlapScoreOf(d, /\ Truthy(request.vin)
                                              /\ Truthy(Get(d, "vin", None))
                                              /\ Contains(request.vin, d.vin))

\* C21 amended: the same, the VIN filter and the document's VIN being
\* compared in upper case.
C21_KeywordOverlapScoreAnyCase ==
    (LocalAnswered /\ ~Indexed) =>
        /\ DegradedAnswer
        /\ \A i \in DOMAIN response.results :
              LET d == response.results[i]
              IN  d.score = OverlapScoreOf(d, /\ Truthy(request.vin)
                                              /\ Truthy(Get(d, "vin", None))
                                              /\ Contains(Upper(request.vin), Upper(d.vin)))

\* a degraded search with the VIN typed in lower case returned that vehicle's
\* recall with the bonus in its score
C21_Witness ==
    /\ LocalAnswered
    /\ ~Indexed
    /\ request.vin = Vin1Lower
    /\ \E i \in DOMAIN response.results :
          /\ Get(response.results[i], "vin", None) = Vin1
          /\ response.results[i].score = One

\* C22: a search request whose query is empty or longer than 500 characters
\* is answered with status 400, in api and in api_local, and no retrieval is
\* performed for it.
C22_InvalidQueryAnswered400 ==
    (/\ pc = "searched"
     /\ (Len(request.query) = 0 \/ Len(request.query) > 500))
        => /\ response.status = 400
           /\ combined_results = <<>>

\* C23: a search with filter_type 'dtc' returns only results of type 'dtc',
\* in api and in api_local, for every query and k.
C23_DtcFilterReturnsDtcOnly ==
    (/\ pc = "searched"
     /\ response.status = 200
     /\ request.filter_type = <<"dtc">>)
        => \A i \in DOMAIN response.results : response.results[i].type = "dtc"

\* C27: in hybrid_search the vector_score attached to a document is the score
\* search_local(query, 2k, vin) gave that same document, or 0 when the
\* document is not among those candidates.
C27_VectorScoreOfSameDocument ==
    (LocalAnswered /\ Indexed) =>
        LET candidates == search_local(request.query, 2 * request.k, request.vin)
        IN  \A i \in DOMAIN response.results :
               LET d == response.results[i]
                   same == {j \in DOMAIN candidates : candidates[j].text = d.text}
               IN  IF same = {}
                   THEN d.vector_score = 0
                   ELSE \A j \in same : d.vector_score = candidates[j].score

Stored == \E i \in DOMAIN db.dtc : db.dtc[i].code = Upper(dtc_arg)

\* C24: GET /dtc/{code} answers 200 with the stored record whose code is the
\* requested code in upper case when the store holds it, and 404, never 500,
\* when the store can be reached and does not hold it; api and api_local.
C24_DtcLookupAnswers ==
    (pc = "dtc_answered" /\ "database" \in up) =>
        IF Stored
        THEN /\ response.status = 200
             /\ response.body.code = Upper(dtc_arg)
             /\ \E i \in DOMAIN db.dtc :
                    /\ db.dtc[i].code = response.body.code
                    /\ db.dtc[i].category = response.body.category
                    /\ db.dtc[i].description = response.body.description
        ELSE response.status = 404

\* the code typed in lower case was found under its upper-case form
C24_Witness ==
    /\ pc = "dtc_answered"
    /\ dtc_arg = Lower(DtcP0420)
    /\ response.status = 200
    /\ response.body.code = DtcP0420

\* C28: the health endpoint reports 'healthy' only when every checked
\* service is healthy; when a check fails the overall status is 'degraded'.
C28_HealthyOnlyWhenAllHealthy ==
    (pc = "health_answered") =>
        LET services == response.body.services
        IN  IF \A name \in DOMAIN services : services[name] = Healthy
            THEN response.body.status = "healthy"
            ELSE response.body.status = "degraded"

\* C30: get_qdrant_client returns only a client whose connection test
\* succeeded; after a failed test no client stays cached, and while Qdrant
\* cannot be reached every call fails and the health endpoint reports
\* Qdrant unhealthy.
C30_OnlyTestedClients ==
    /\ (pc = "client_resolved" /\ ~result.raised) => result.value.tested
    /\ "qdrant" \notin up =>
          /\ ~TruthyDict(qdrant)
          /\ pc = "client_resolved" => result.raised
          /\ (pc = "health_answered" /\ entry = "api") =>
                 response.body.services.qdrant # Healthy

\* a search can run: before the start-up handler has begun, or after it has
\* returned. startup_event is a coroutine without an await, so no request
\* handler runs between its statements
SearchCanRead == pc = "start" \/ pc \in Serving

\* the index was built from the document list as it is now, position by
\* position; without an index the list is empty
Aligned ==
    IF TruthyDict(bm25_index)
    THEN /\ DOMAIN bm25_index.corpus = DOMAIN documents
         /\ \A i \in DOMAIN documents :
                bm25_index.corpus[i] = Split(Lower(documents[i].text))
    ELSE documents = <<>>

MidBuildMisaligned == pc = "recalls_added" /\ TruthyList(documents) /\ ~Aligned

\* C25: the embedding-model handle is initialized exactly once per process:
\* whatever the interleaving of concurrent callers of get_embedding_model, at
\* most one instance is constructed and every caller receives that instance.
C25_OneInstanceForAll ==
    /\ constructed <= 1
    /\ \A t, u \in DOMAIN callers :
          (callers[t].at = "returned" /\ callers[u].at = "returned")
              => callers[t].got = callers[u].got

====
